---- MODULE Spec2Model ----
(***************************************************************************)
(* Planet CRS Registry: the services router (ws_router.py).                *)
(*                                                                         *)
(* The state is the persistent record store (the WKT table), the storage   *)
(* file's presence on disk, the process phase, and the last HTTP exchange. *)
(* Strings that the code inspects (ids, solar bodies, the storage URL, the *)
(* datum) are sequences of one-character strings, so that the regular      *)
(* expressions, str.lower() and the f-string that builds the id are        *)
(* computed and not assumed.                                               *)
(***************************************************************************)
EXTENDS Integers, Sequences, FiniteSets, TLC

VARIABLES db_url, index, file_exists, store, pc, starts, ingested, response,
          pg_offset, pg_pages, pg_done

vars == <<db_url, index, file_exists, store, pc, starts, ingested, response,
          pg_offset, pg_pages, pg_done>>

(***************************************************************************)
(* Bounds of the model.                                                    *)
(***************************************************************************)
\* entries of the small reference datasets
NSmall == 4
\* entries of the large reference dataset (more than two full pages)
NBig == 201
\* process starts explored
MaxStarts == 2

(***************************************************************************)
(* Program constants.                                                      *)
(***************************************************************************)
\* LIMIT_QUERY = Query(50, gt=-1, le=100)
LimitDefault == 50
LimitGt == -1
LimitLe == 100
\* OFFSET_QUERY = Query(0, gt=-1)
OffsetDefault == 0
OffsetGt == -1
\* version_id: int = Path(default=2015, gt=2014)
VersionGt == 2014
HTTP_404_NOT_FOUND == 404
HTTP_400_BAD_REQUEST == 400

(***************************************************************************)
(* Characters and strings.                                                 *)
(***************************************************************************)
Upper == <<"A","B","C","D","E","F","G","H","I","J","K","L","M",
           "N","O","P","Q","R","S","T","U","V","W","X","Y","Z">>
LowerCase == <<"a","b","c","d","e","f","g","h","i","j","k","l","m",
               "n","o","p","q","r","s","t","u","v","w","x","y","z">>
DigitChars == <<"0","1","2","3","4","5","6","7","8","9">>
\* the characters of the model in code point order
Ascii == <<"\n", " ", "(", ")", "-", "/", ".">> \o DigitChars \o <<":">> \o Upper \o LowerCase

Range(s) == {s[i] : i \in 1..Len(s)}

IndexOf(s, c) == CHOOSE i \in 1..Len(s) : s[i] = c

\* str.lower(), one character
LowerChar(c) == IF c \in Range(Upper) THEN LowerCase[IndexOf(Upper, c)] ELSE c

\* str.lower()
lower(s) == [i \in 1..Len(s) |-> LowerChar(s[i])]

\* \d
IsDigit(c) == c \in Range(DigitChars)

\* \s
IsSpace(c) == c \in {" ", "\n", "\t"}

AllDigits(s, from, to) == \A k \in from..to : IsDigit(s[k])

\* . (any character but a line break)
AllDot(s, from, to) == \A k \in from..to : s[k] # "\n"

\* $ at position p (1-based, the next character to read): the end of the
\* string, or just before a line break that ends the string
AtDollar(s, p) == p = Len(s) + 1 \/ (p = Len(s) /\ s[p] = "\n")

\* re.match("^.*:\d*:\d*$", s): the regex of get_wkt_version and get_wkt_body
MatchIdAnchored(s) ==
    \E i \in 1..Len(s) : \E j \in (i+1)..Len(s) : \E e \in j..Len(s) :
        /\ s[i] = ":" /\ s[j] = ":"
        /\ AllDot(s, 1, i - 1)
        /\ AllDigits(s, i + 1, j - 1)
        /\ AllDigits(s, j + 1, e)
        /\ AtDollar(s, e + 1)

\* re.match("^.*:\d*:\d*", s): the regex of get_wkt, which has no $
MatchIdPrefix(s) ==
    \E i \in 1..Len(s) : \E j \in (i+1)..Len(s) :
        /\ s[i] = ":" /\ s[j] = ":"
        /\ AllDot(s, 1, i - 1)
        /\ AllDigits(s, i + 1, j - 1)

\* f"{n}" of a non-negative integer
RECURSIVE Str(_)
Str(n) == IF n < 10 THEN <<DigitChars[n + 1]>>
          ELSE Str(n \div 10) \o <<DigitChars[(n % 10) + 1]>>

\* re.match(r"[^\s]+", datum): the longest prefix without white space;
\* the empty sequence stands for None (no match)
FirstToken(datum) ==
    LET stops == {k \in 1..Len(datum) : IsSpace(datum[k])}
        n == IF stops = {} THEN Len(datum)
             ELSE (CHOOSE k \in stops : \A m \in stops : k <= m) - 1
    IN  SubSeq(datum, 1, n)

\* re.match("sqlite://(?P<db_name>.*)", db_url): whether it matched (is not
\* None) and the group db_name
SqlitePrefix == <<"s","q","l","i","t","e",":","/","/">>
DbNameMatch(url) ==
    IF Len(url) >= Len(SqlitePrefix) /\ SubSeq(url, 1, Len(SqlitePrefix)) = SqlitePrefix
    THEN LET rest == SubSeq(url, Len(SqlitePrefix) + 1, Len(url))
             nl == {k \in 1..Len(rest) : rest[k] = "\n"}
         IN  [matched |-> TRUE,
              db_name |-> IF nl = {} THEN rest
                          ELSE SubSeq(rest, 1, (CHOOSE k \in nl : \A m \in nl : k <= m) - 1)]
    ELSE [matched |-> FALSE, db_name |-> <<>>]

(***************************************************************************)
(* The reference dataset (WktDatabase().index) and the storage URLs.       *)
(***************************************************************************)
Mars == <<"M","a","r","s">>
Moon == <<"M","o","o","n">>
Io == <<"I","o">>
BodyOf(i) == CASE i % 3 = 1 -> Mars [] i % 3 = 2 -> Moon [] OTHER -> Io

\* entry i of the dataset: two IAU versions, codes unique within a version
Entry(i) ==
    [iau_version |-> 2015 + ((i + 1) % 2),
     iau_code    |-> 999 + i,
     datum       |-> BodyOf(i) \o <<" ", "(">> \o Str(2015 + ((i + 1) % 2)) \o <<")">>,
     ellipsoid   |-> "Sphere",
     projcrs     |-> "No projection",
     wkt         |-> <<"GEOGCRS", i>>]

Good(n) == [i \in 1..n |-> Entry(i)]
\* the third entry's datum starts with a blank: no first token
BadDatum(n) == [i \in 1..n |-> IF i = 3 THEN [Entry(i) EXCEPT !.datum = <<" ">> \o @]
                               ELSE Entry(i)]
\* the third entry repeats the first one's version and code
Duplicate(n) == [i \in 1..n |-> IF i = 3 THEN Entry(1) ELSE Entry(i)]

Datasets == {Good(NSmall), Good(NBig), BadDatum(NSmall), Duplicate(NSmall)}

SqliteUrl == SqlitePrefix \o <<"d","b",".","s","q","l","i","t","e","3">>
ServerUrl == <<"p","o","s","t","g","r","e","s",":","/","/","h","/","d","b">>
DbUrls == {SqliteUrl, ServerUrl}

(***************************************************************************)
(* The record store.                                                       *)
(***************************************************************************)
IAU == <<"I","A","U">>

\* re.match(r"[^\s]+", record.datum) is None: .group(0) raises
DatumRaises(record) == FirstToken(record.datum) = <<>>

\* wkt_data of startup_event's loop body
WktData(record) ==
         [id              |-> IAU \o <<":">> \o Str(record.iau_version)
                                  \o <<":">> \o Str(record.iau_code),
          version         |-> record.iau_version,
          code            |-> record.iau_code,
          solar_body      |-> FirstToken(record.datum),
          datum_name      |-> record.datum,
          ellipsoid_name  |-> record.ellipsoid,
          projection_name |-> record.projcrs,
          wkt             |-> record.wkt]

HasId(st, id) == \E k \in 1..Len(st) : st[k].id = id

\* WKT_model.create(**wkt_data): the id is the primary key
Create(st, data) ==
    IF HasId(st, data.id) THEN [ok |-> FALSE, store |-> st]
    ELSE [ok |-> TRUE, store |-> Append(st, data)]

\* the smallest element of a non-empty set of integers
Least(S) == CHOOSE x \in S : \A y \in S : x <= y

\* a loop whose inserts do not meet the primary key: only a datum without a
\* first token stops it
IngestNoKey(st, idx) ==
    LET raises == {p \in 1..Len(idx) : DatumRaises(idx[p])}
        n == IF raises = {} THEN Len(idx) ELSE Least(raises) - 1
    IN  [ok |-> raises = {}, store |-> st \o [i \in 1..n |-> WktData(idx[i])]]

\* the loop of startup_event over the whole index, every insert committed on
\* its own. Entry p raises when its datum has no first token or when create
\* meets its id, in the store as it was or among the entries inserted before
\* it; the entries before the first one that raises are in the store, and
\* ok is FALSE when one raised
Ingest(st, idx) ==
    LET ids == [i \in 1..Len(idx) |-> WktData(idx[i]).id]
        raises == {p \in 1..Len(idx) :
                      \/ DatumRaises(idx[p])
                      \/ ~Create(st, WktData(idx[p])).ok
                      \/ \E q \in 1..(p - 1) : ids[q] = ids[p]}
        n == IF raises = {} THEN Len(idx) ELSE Least(raises) - 1
    IN  [ok |-> raises = {}, store |-> st \o [i \in 1..n |-> WktData(idx[i])]]

\* file is None or not file.exists()
NeedsIngestion(url, exists) == ~DbNameMatch(url).matched \/ ~exists

(***************************************************************************)
(* The query layer: what the ORM chains of the handlers compute.           *)
(***************************************************************************)
Min(a, b) == IF a <= b THEN a ELSE b
Max(a, b) == IF a >= b THEN a ELSE b

\* .limit(limit).offset(offset) on rows in table order
Paginate(rows, limit, offset) ==
    IF offset >= Len(rows) \/ limit <= 0 THEN <<>>
    ELSE SubSeq(rows, offset + 1, Min(Len(rows), offset + limit))

\* WKT_model.filter(version=version_id)
FilterVersion(st, version_id) == SelectSeq(st, LAMBDA r : r.version = version_id)

\* WKT_model.annotate(solar_body_lower=Lower("solar_body"))
\*          .filter(solar_body_lower=solar_body.lower())
FilterSolarBody(st, solar_body) ==
    SelectSeq(st, LAMBDA r : lower(r.solar_body) = lower(solar_body))

\* query_search.get_wkt_obj(wkt_id): the record with that id, or NotFound
get_wkt_obj(st, wkt_id) ==
    IF HasId(st, wkt_id)
    THEN [found |-> TRUE, obj |-> st[CHOOSE k \in 1..Len(st) : st[k].id = wkt_id]]
    ELSE [found |-> FALSE, obj |-> <<>>]

\* query_search.search_term(search_term_kw, limit, offset)
search_term(st, kw, limit, offset) ==
    Paginate(SelectSeq(st, LAMBDA r : lower(r.solar_body) = lower(kw)), limit, offset)

\* query_search.search_term_count(search_term_kw)
search_term_count(st, kw) ==
    Len(SelectSeq(st, LAMBDA r : lower(r.solar_body) = lower(kw)))

\* the code point of a character
Code(c) == IndexOf(Ascii, c)

\* a < b in the order of the code points
StrLess(a, b) ==
    \E k \in 1..(Min(Len(a), Len(b)) + 1) :
        /\ \A m \in 1..(k - 1) : a[m] = b[m]
        /\ \/ (k = Len(a) + 1 /\ k <= Len(b))
           \/ (k <= Len(a) /\ k <= Len(b) /\ Code(a[k]) < Code(b[k]))

\* .group_by("version").order_by("version").values("version")
RECURSIVE SortedInts(_)
SortedInts(S) ==
    IF S = {} THEN <<>>
    ELSE LET m == CHOOSE x \in S : \A y \in S : x <= y
         IN  <<m>> \o SortedInts(S \ {m})

\* .group_by("solar_body").order_by("solar_body").values("solar_body")
RECURSIVE SortedStrs(_)
SortedStrs(S) ==
    IF S = {} THEN <<>>
    ELSE LET m == CHOOSE x \in S : \A y \in S \ {x} : StrLess(x, y)
         IN  <<m>> \o SortedStrs(S \ {m})

(***************************************************************************)
(* The handlers: request validation (Path and Query constraints), then the *)
(* body. A result is the HTTP status, the body, and the ids get_wkt_obj    *)
(* was called with.                                                        *)
(***************************************************************************)
Ok(body) == [status |-> 200, body |-> body, lookup |-> <<>>]
OkAfter(body, wkt_id) == [status |-> 200, body |-> body, lookup |-> <<wkt_id>>]
\* the framework's answer to a parameter that fails its constraint
ValidationError == [status |-> 422, body |-> "validation", lookup |-> <<>>]
\* raised by get_wkt_obj
NotFound(wkt_id) ==
    [status |-> HTTP_404_NOT_FOUND, body |-> "not found", lookup |-> <<wkt_id>>]

ValidLimit(limit) == limit > LimitGt /\ limit <= LimitLe
ValidOffset(offset) == offset > OffsetGt
ValidVersion(version_id) == version_id > VersionGt

\* a get_wkts that skips one record too many
get_wkts_skip(st, limit, offset) ==
    IF ~(ValidLimit(limit) /\ ValidOffset(offset)) THEN ValidationError
    ELSE Ok(Paginate(st, limit, offset + 1))

get_wkts(st, limit, offset) ==
    IF ~(ValidLimit(limit) /\ ValidOffset(offset)) THEN ValidationError
    ELSE Ok(Paginate(st, limit, offset))

wkts_count(st) == Ok(Len(st))

get_versions(st) == Ok(SortedInts({st[k].version : k \in 1..Len(st)}))

get_version(st, version_id, limit, offset) ==
    IF ~(ValidVersion(version_id) /\ ValidLimit(limit) /\ ValidOffset(offset))
    THEN ValidationError
    ELSE LET obj == Paginate(FilterVersion(st, version_id), limit, offset)
         IN  IF Len(obj) = 0
             THEN [status |-> HTTP_404_NOT_FOUND, body |-> "not found", lookup |-> <<>>]
             ELSE Ok(obj)

version_count(st, version_id) ==
    IF ~ValidVersion(version_id) THEN ValidationError
    ELSE Ok(Len(FilterVersion(st, version_id)))

\* a get_wkt_version that admits version_id = 2014 (ge in place of gt)
get_wkt_version_ge(st, version_id, wkt_id) ==
    IF ~(version_id >= VersionGt /\ MatchIdAnchored(wkt_id)) THEN ValidationError
    ELSE LET got == get_wkt_obj(st, wkt_id)
         IN  IF ~got.found THEN NotFound(wkt_id)
             ELSE IF got.obj.version # version_id
             THEN [status |-> HTTP_400_BAD_REQUEST, body |-> "wrong version",
                   lookup |-> <<wkt_id>>]
             ELSE OkAfter(got.obj.wkt, wkt_id)

\* a get_wkt_version that does not compare the versions
get_wkt_version_nocheck(st, version_id, wkt_id) ==
    IF ~(ValidVersion(version_id) /\ MatchIdAnchored(wkt_id)) THEN ValidationError
    ELSE LET got == get_wkt_obj(st, wkt_id)
         IN  IF ~got.found THEN NotFound(wkt_id)
             ELSE OkAfter(got.obj.wkt, wkt_id)

get_wkt_version(st, version_id, wkt_id) ==
    IF ~(ValidVersion(version_id) /\ MatchIdAnchored(wkt_id)) THEN ValidationError
    ELSE LET got == get_wkt_obj(st, wkt_id)
         IN  IF ~got.found THEN NotFound(wkt_id)
             ELSE IF got.obj.version # version_id
             THEN [status |-> HTTP_400_BAD_REQUEST, body |-> "wrong version",
                   lookup |-> <<wkt_id>>]
             ELSE OkAfter(got.obj.wkt, wkt_id)

get_wkt(st, wkt_id) ==
    IF ~MatchIdPrefix(wkt_id) THEN ValidationError
    ELSE LET got == get_wkt_obj(st, wkt_id)
         IN  IF ~got.found THEN NotFound(wkt_id)
             ELSE OkAfter(got.obj.wkt, wkt_id)

SolarBodyNames(st) == SortedStrs({st[k].solar_body : k \in 1..Len(st)})

get_solar_bodies(st) == Ok(SolarBodyNames(st))

solar_bodies_count(st) == Ok(Len(SolarBodyNames(st)))

get_solar_body(st, solar_body, limit, offset) ==
    IF ~(ValidLimit(limit) /\ ValidOffset(offset)) THEN ValidationError
    ELSE LET obj == Paginate(FilterSolarBody(st, solar_body), limit, offset)
         IN  IF Len(obj) = 0
             THEN [status |-> HTTP_404_NOT_FOUND, body |-> "not found", lookup |-> <<>>]
             ELSE Ok(obj)

\* a count of the full filtered set
get_solar_body_count_full(st, solar_body, limit, offset) ==
    IF ~(ValidLimit(limit) /\ ValidOffset(offset)) THEN ValidationError
    ELSE Ok(Len(FilterSolarBody(st, solar_body)))

get_solar_body_count(st, solar_body, limit, offset) ==
    IF ~(ValidLimit(limit) /\ ValidOffset(offset)) THEN ValidationError
    ELSE Ok(Len(Paginate(FilterSolarBody(st, solar_body), limit, offset)))

\* a get_wkt_body that compares the solar bodies as they are written
get_wkt_body_exact(st, solar_body, wkt_id) ==
    IF ~MatchIdAnchored(wkt_id) THEN ValidationError
    ELSE LET got == get_wkt_obj(st, wkt_id)
         IN  IF ~got.found THEN NotFound(wkt_id)
             ELSE IF got.obj.solar_body # solar_body
             THEN [status |-> HTTP_400_BAD_REQUEST, body |-> "wrong body",
                   lookup |-> <<wkt_id>>]
             ELSE OkAfter(got.obj.wkt, wkt_id)

get_wkt_body(st, solar_body, wkt_id) ==
    IF ~MatchIdAnchored(wkt_id) THEN ValidationError
    ELSE LET got == get_wkt_obj(st, wkt_id)
         IN  IF ~got.found THEN NotFound(wkt_id)
             ELSE IF lower(got.obj.solar_body) # lower(solar_body)
             THEN [status |-> HTTP_400_BAD_REQUEST, body |-> "wrong body",
                   lookup |-> <<wkt_id>>]
             ELSE OkAfter(got.obj.wkt, wkt_id)

search(st, search_term_kw, limit, offset) ==
    IF ~(ValidLimit(limit) /\ ValidOffset(offset)) THEN ValidationError
    ELSE Ok(search_term(st, search_term_kw, limit, offset))

search_count(st, search_term_kw) == Ok(search_term_count(st, search_term_kw))

(***************************************************************************)
(* The requests a client sends.                                            *)
(***************************************************************************)
Limits == {LimitGt, 0, 1, LimitDefault, LimitLe, LimitLe + 1}
Offsets == {OffsetGt, OffsetDefault, 1, NSmall, LimitLe, NBig}
VersionIds == {VersionGt, 2015, 2016, 9999}
SolarBodies == {Mars, lower(Mars), <<"M","A","R","S">>, <<"i","o">>,
                <<"V","e","n","u","s">>}
Keywords == {<<"M","o","o","n">>, <<"c","r","s">>}

IdOf(version, code) == IAU \o <<":">> \o Str(version) \o <<":">> \o Str(code)

WellFormedIds == {IdOf(2015, 1000), IdOf(2016, 1001), IdOf(2015, 1002),
                  IdOf(2015, 9999), <<"x">> \o <<":">> \o Str(7) \o <<":">> \o Str(8)}
MalformedIds == {<<"n","o","t","a","n","i","d">>,
                 IAU \o <<":", ":">>,
                 IAU \o <<":">> \o Str(2015) \o <<":">>,
                 IdOf(2015, 1000) \o <<"x","y","z">>,
                 IdOf(2015, 1000) \o <<"\n">>,
                 IAU \o <<":">> \o <<"v">> \o <<":">> \o Str(1000)}
WktIds == WellFormedIds \cup MalformedIds

NoResponse ==
    [route |-> "none", version_id |-> 0, wkt_id |-> <<>>, solar_body |-> <<>>,
     search_term_kw |-> <<>>, limit |-> 0, offset |-> 0,
     status |-> 0, body |-> "none", lookup |-> <<>>]

\* the exchange: the route, its parameters, and the handler's result
Exchange(route, params, result) ==
    [route |-> route,
     version_id |-> params.version_id, wkt_id |-> params.wkt_id,
     solar_body |-> params.solar_body, search_term_kw |-> params.search_term_kw,
     limit |-> params.limit, offset |-> params.offset,
     status |-> result.status, body |-> result.body, lookup |-> result.lookup]

NoParams ==
    [version_id |-> 0, wkt_id |-> <<>>, solar_body |-> <<>>,
     search_term_kw |-> <<>>, limit |-> 0, offset |-> 0]

(***************************************************************************)
(* Initial state: a deployment (storage URL, reference dataset) whose      *)
(* storage does not exist yet, and no process running.                     *)
(***************************************************************************)
Init ==
    /\ db_url \in DbUrls
    /\ index \in Datasets
    /\ file_exists = FALSE
    /\ store = <<>>
    /\ pc = "stopped"
    /\ starts = 0
    /\ ingested = FALSE
    /\ response = NoResponse
    /\ pg_offset = 0
    /\ pg_pages = <<>>
    /\ pg_done = FALSE

PagerReset == pg_offset' = 0 /\ pg_pages' = <<>> /\ pg_done' = FALSE

(***************************************************************************)
(* Process start and stop.                                                 *)
(***************************************************************************)
\* @router.on_event("startup"): a start that raises leaves the process
\* stopped; Tortoise.init creates the file of a file-based store
startup_event ==
    /\ pc = "stopped"
    /\ starts < MaxStarts
    /\ starts' = starts + 1
    /\ IF NeedsIngestion(db_url, file_exists)
       THEN LET done == Ingest(store, index)
            IN  /\ file_exists' = (file_exists \/ DbNameMatch(db_url).matched)
                /\ store' = done.store
                /\ ingested' = (ingested \/ done.ok)
                /\ pc' = IF done.ok THEN "serving" ELSE "stopped"
       ELSE /\ pc' = "serving"
            /\ UNCHANGED <<file_exists, store, ingested>>
    /\ response' = NoResponse
    /\ PagerReset
    /\ UNCHANGED <<db_url, index>>

\* @router.on_event("shutdown")
close_orm ==
    /\ pc = "serving"
    /\ pc' = "stopped"
    /\ response' = NoResponse
    /\ PagerReset
    /\ UNCHANGED <<db_url, index, file_exists, store, starts, ingested>>

(***************************************************************************)
(* One action per route.                                                   *)
(***************************************************************************)
\* the exchange is over: the handler's result has been sent to the client
Respond ==
    /\ pc = "serving"
    /\ response.route # "none"
    /\ response' = NoResponse
    /\ UNCHANGED <<db_url, index, file_exists, store, pc, starts, ingested,
                   pg_offset, pg_pages, pg_done>>

\* a request is taken up when the previous exchange is over
Serve(exchange) ==
    /\ pc = "serving"
    /\ response.route = "none"
    /\ response' = exchange
    /\ PagerReset
    /\ UNCHANGED <<db_url, index, file_exists, store, pc, starts, ingested>>

Req_get_wkts ==
    \E l \in Limits, o \in Offsets :
        Serve(Exchange("get_wkts", [NoParams EXCEPT !.limit = l, !.offset = o],
                       get_wkts(store, l, o)))

Req_wkts_count == Serve(Exchange("wkts_count", NoParams, wkts_count(store)))

Req_get_versions == Serve(Exchange("get_versions", NoParams, get_versions(store)))

Req_get_version ==
    \E v \in VersionIds, l \in Limits, o \in Offsets :
        Serve(Exchange("get_version",
                       [NoParams EXCEPT !.version_id = v, !.limit = l, !.offset = o],
                       get_version(store, v, l, o)))

Req_version_count ==
    \E v \in VersionIds :
        Serve(Exchange("version_count", [NoParams EXCEPT !.version_id = v],
                       version_count(store, v)))

Req_get_wkt_version ==
    \E v \in VersionIds, id \in WktIds :
        Serve(Exchange("get_wkt_version",
                       [NoParams EXCEPT !.version_id = v, !.wkt_id = id],
                       get_wkt_version(store, v, id)))

Req_get_wkt ==
    \E id \in WktIds :
        Serve(Exchange("get_wkt", [NoParams EXCEPT !.wkt_id = id], get_wkt(store, id)))

Req_get_solar_bodies ==
    Serve(Exchange("get_solar_bodies", NoParams, get_solar_bodies(store)))

Req_solar_bodies_count ==
    Serve(Exchange("solar_bodies_count", NoParams, solar_bodies_count(store)))

Req_get_solar_body ==
    \E b \in SolarBodies, l \in Limits, o \in Offsets :
        Serve(Exchange("get_solar_body",
                       [NoParams EXCEPT !.solar_body = b, !.limit = l, !.offset = o],
                       get_solar_body(store, b, l, o)))

Req_get_solar_body_count ==
    \E b \in SolarBodies, l \in Limits, o \in Offsets :
        Serve(Exchange("get_solar_body_count",
                       [NoParams EXCEPT !.solar_body = b, !.limit = l, !.offset = o],
                       get_solar_body_count(store, b, l, o)))

Req_get_wkt_body ==
    \E b \in SolarBodies, id \in WktIds :
        Serve(Exchange("get_wkt_body",
                       [NoParams EXCEPT !.solar_body = b, !.wkt_id = id],
                       get_wkt_body(store, b, id)))

Req_search ==
    \E kw \in Keywords, l \in Limits, o \in Offsets :
        Serve(Exchange("search",
                       [NoParams EXCEPT !.search_term_kw = kw, !.limit = l, !.offset = o],
                       search(store, kw, l, o)))

Req_search_count ==
    \E kw \in Keywords :
        Serve(Exchange("search_count", [NoParams EXCEPT !.search_term_kw = kw],
                       search_count(store, kw)))

\* a client that reads the whole catalog: GET /wkts?limit=100&offset=0, 100,
\* 200, ... until a page comes back empty or short
PageNext ==
    /\ pc = "serving"
    /\ response.route = "none"
    /\ ~pg_done
    /\ LET got == get_wkts(store, LimitLe, pg_offset)
       IN  /\ response' = Exchange("get_wkts",
                                   [NoParams EXCEPT !.limit = LimitLe, !.offset = pg_offset],
                                   got)
           /\ pg_pages' = Append(pg_pages, got.body)
           /\ pg_done' = (Len(got.body) < LimitLe)
    /\ pg_offset' = pg_offset + LimitLe
    /\ UNCHANGED <<db_url, index, file_exists, store, pc, starts, ingested>>

Next ==
    \/ startup_event
    \/ close_orm
    \/ Respond
    \/ Req_get_wkts
    \/ Req_wkts_count
    \/ Req_get_versions
    \/ Req_get_version
    \/ Req_version_count
    \/ Req_get_wkt_version
    \/ Req_get_wkt
    \/ Req_get_solar_bodies
    \/ Req_solar_bodies_count
    \/ Req_get_solar_body
    \/ Req_get_solar_body_count
    \/ Req_get_wkt_body
    \/ Req_search
    \/ Req_search_count
    \/ PageNext

Spec == Init /\ [][Next]_vars

(***************************************************************************)
(* Properties.                                                             *)
(***************************************************************************)
\* the positions of the records of the store that have this id
Hits(wkt_id) == {k \in 1..Len(store) : store[k].id = wkt_id}

\* <anything>:<one or more digits>:<one or more digits>
StrictShape(s) ==
    \E i \in 1..Len(s) : \E j \in (i + 2)..(Len(s) - 1) :
        /\ s[i] = ":" /\ s[j] = ":"
        /\ \A k \in (i + 1)..(j - 1) : IsDigit(s[k])
        /\ \A k \in (j + 1)..Len(s) : IsDigit(s[k])

\* C1: a validated GET /versions/{version_id}/{wkt_id} ends in exactly one of
\* three ways: 404 when no record has the id, 400 when the record's version
\* is not the path's, and otherwise the record's wkt, which is also what
\* GET /wkts/{wkt_id} returns for that id.
C1_ThreeOutcomes ==
    (response.route = "get_wkt_version" /\ response.status # 422) =>
        \/ Hits(response.wkt_id) = {} /\ response.status = 404
        \/ \E k \in Hits(response.wkt_id) :
              store[k].version # response.version_id /\ response.status = 400
        \/ \E k \in Hits(response.wkt_id) :
              /\ store[k].version = response.version_id
              /\ response.status = 200
              /\ response.body = store[k].wkt
              /\ get_wkt(store, response.wkt_id).status = 200
              /\ get_wkt(store, response.wkt_id).body = response.body

C1_Witness ==
    /\ response.route = "get_wkt_version"
    /\ response.wkt_id = IdOf(2015, 1000)
    /\ response.version_id = 2015
    /\ response.status = 200

\* C2 as stated: whenever the record is found and the path version differs
\* from the record's, path version 2014 included, the answer is 400.
C2_MismatchAlways400 ==
    (/\ response.route = "get_wkt_version"
     /\ \E k \in Hits(response.wkt_id) : store[k].version # response.version_id)
        => response.status = 400

\* C2 amended: when the record is found and the path version differs from
\* the record's, the answer is 400 if the path version is greater than 2014;
\* a path version of 2014 or less is rejected by validation (422) and the
\* lookup does not run.
C2_MismatchAbove2014 ==
    (/\ response.route = "get_wkt_version"
     /\ \E k \in Hits(response.wkt_id) : store[k].version # response.version_id)
        => IF response.version_id > 2014
           THEN response.status = 400
           ELSE response.status = 422 /\ response.lookup = <<>>

C2_Witness ==
    /\ response.route = "get_wkt_version"
    /\ response.wkt_id = IdOf(2015, 1000)
    /\ response.version_id = 2016
    /\ response.status = 400

\* C3: on the routes that take a wkt_id, get_wkt_obj is called only with an
\* id of the shape <anything>:<digits>:<digits>, digits meaning one or more.
C3_LookupOnlyStrictShape ==
    response.lookup # <<>> => StrictShape(response.lookup[1])

\* C4: for limit in 0..100 and offset >= 0, GET /wkts returns the records at
\* positions offset+1 .. offset+limit of the store (fewer when the store ends
\* earlier), in the store's order.
C4_PageIsSlice ==
    (/\ response.route = "get_wkts"
     /\ response.limit \in 0..100
     /\ response.offset >= 0)
        => /\ response.status = 200
           /\ LET rest == Len(store) - response.offset
                  n == IF rest < 0 THEN 0
                       ELSE IF rest < response.limit THEN rest ELSE response.limit
              IN  /\ Len(response.body) = n
                  /\ \A k \in 1..n : response.body[k] = store[response.offset + k]

C4_Witness ==
    /\ response.route = "get_wkts"
    /\ response.limit = 50
    /\ response.offset = 1
    /\ response.status = 200
    /\ Len(response.body) = 50
    /\ Len(store) > 51

\* every record of every page read so far, in reading order
RECURSIVE Flatten(_)
Flatten(pages) ==
    IF pages = <<>> THEN <<>> ELSE Head(pages) \o Flatten(Tail(pages))

\* C5: when the catalog has been read with limit=100 and offset=0, 100, ...
\* up to the first empty or short page, the page lengths add up to the value
\* of GET /wkts/count, and every record of the store is on exactly one page,
\* once.
C5_PagesCoverCount ==
    pg_done =>
        LET read == Flatten(pg_pages)
        IN  /\ wkts_count(store).body = Len(read)
            /\ \A k \in 1..Len(store) :
                   Cardinality({q \in 1..Len(read) : read[q] = store[k]}) = 1

C5_Witness ==
    /\ pg_done
    /\ Len(pg_pages) = 3
    /\ Len(pg_pages[1]) = 100
    /\ Len(store) > 200

\* C6: a validated GET /versions/{version_id} answers 404 exactly when no
\* record has that version, and a validated GET /solar_bodies/{solar_body}
\* answers 404 exactly when no record has that solar body, letter case
\* ignored.
C6_NotFoundIffNoMatch ==
    /\ (response.route = "get_version" /\ response.status # 422) =>
           (response.status = 404
               <=> ~\E k \in 1..Len(store) : store[k].version = response.version_id)
    /\ (response.route = "get_solar_body" /\ response.status # 422) =>
           (response.status = 404
               <=> ~\E k \in 1..Len(store) :
                       lower(store[k].solar_body) = lower(response.solar_body))

C8_BodyCaseInsensitive ==
    (response.route = "get_wkt_body" /\ response.status # 422) =>
        /\ \/ Hits(response.wkt_id) = {} /\ response.status = 404
           \/ \E k \in Hits(response.wkt_id) :
                 /\ lower(store[k].solar_body) = lower(response.solar_body)
                 /\ response.status = 200
                 /\ response.body = store[k].wkt
           \/ \E k \in Hits(response.wkt_id) :
                 /\ lower(store[k].solar_body) # lower(response.solar_body)
                 /\ response.status = 400
        /\ \A b \in SolarBodies :
               lower(b) = lower(response.solar_body) =>
                   LET other == get_wkt_body(store, b, response.wkt_id)
                   IN  /\ other.status = response.status
                       /\ other.status = 200 => other.body = response.body

C8_Witness ==
    /\ response.route = "get_wkt_body"
    /\ response.solar_body = <<"M","A","R","S">>
    /\ response.wkt_id = IdOf(2015, 1000)
    /\ response.status = 200

\* C9: once a startup ingestion has completed, no step (a request, a later
\* start, a stop) changes the store, whatever the storage URL.
C9_StoreFrozenAfterIngestion == [][ingested => store' = store]_vars

\* a later start has run against the populated store of a server database
C9_Witness ==
    /\ ingested
    /\ starts >= 2
    /\ db_url = ServerUrl
    /\ store # <<>>

\* C10: whenever the API accepts requests, the store is not a non-empty
\* strict part of the catalog: every entry of the reference dataset that
\* makes a record has its record in the store.
C10_NoPartialCatalog ==
    (pc = "serving" /\ store # <<>>) =>
        \A i \in 1..Len(index) :
            ~DatumRaises(index[i]) => HasId(store, WktData(index[i]).id)

====
